---- MODULE Spec2Model ----
(***************************************************************************)
(* Model of smallapp/unbound-control.c: the remote control client reads    *)
(* the configuration, builds the SSL context, contacts the server over    *)
(* TCP, performs the SSL handshake, sends the command and prints the       *)
(* answer.  Every library and system call is an environment choice.        *)
(***************************************************************************)
EXTENDS Integers, Sequences, FiniteSets, TLC

VARIABLES pc, status, err, argv, svr, cfg, res, ctx, addr, hsr, nhs,
          peer, wr, written, received, out, nreads, rd, warned, trace

vars == <<pc, status, err, argv, svr, cfg, res, ctx, addr, hsr, nhs,
          peer, wr, written, received, out, nreads, rd, warned, trace>>

----------------------------------------------------------------------------
(* Bounds of the model.                                                    *)

\* most handshake attempts the transport answers with want-read/want-write
MaxHandshake == 1
\* most positive reads the peer delivers
MaxReads == 2
\* most bytes one read of the model delivers, but for a read that fills the
\* whole buffer
MaxChunk == 1
\* most bytes of the whole answer of the peer
MaxAnswer == 1025

----------------------------------------------------------------------------
(* Strings are sequences of one-character strings, bytes are numbers.      *)

NULL == <<>>
Some(s) == <<s>>

Digits == {"0", "1", "2", "3", "4", "5", "6", "7", "8", "9"}

DigitVal(c) ==
  CASE c = "0" -> 0 [] c = "1" -> 1 [] c = "2" -> 2 [] c = "3" -> 3
    [] c = "4" -> 4 [] c = "5" -> 5 [] c = "6" -> 6 [] c = "7" -> 7
    [] c = "8" -> 8 [] c = "9" -> 9

\* strchr(s, c) != NULL
strchr(s, c) == \E i \in 1..Len(s) : s[i] = c

\* index of the first c in s, 0 when there is none
IndexOf(s, c) ==
  IF strchr(s, c) THEN CHOOSE i \in 1..Len(s) : s[i] = c /\ \A j \in 1..(i-1) : s[j] # c
  ELSE 0

RECURSIVE SplitOn(_, _)
SplitOn(s, c) ==
  LET i == IndexOf(s, c) IN
  IF i = 0 THEN <<s>>
  ELSE <<SubSeq(s, 1, i-1)>> \o SplitOn(SubSeq(s, i+1, Len(s)), c)

IsDigits(s) == Len(s) >= 1 /\ \A i \in 1..Len(s) : s[i] \in Digits

RECURSIVE DecVal(_)
DecVal(s) ==
  IF Len(s) = 0 THEN 0
  ELSE 10 * DecVal(SubSeq(s, 1, Len(s)-1)) + DigitVal(s[Len(s)])

\* a dotted quad of decimal numbers 0..255
IsIp4(s) ==
  LET g == SplitOn(s, ".") IN
  /\ Len(g) = 4
  /\ \A i \in 1..4 : Len(g[i]) \in 1..3 /\ IsDigits(g[i]) /\ DecVal(g[i]) <= 255

\* the IPv6 literals of the model
IsIp6(s) == s \in { <<":", ":", "1">> }

ParseFail == [ok |-> FALSE]

\* ipstrtoaddr: a literal address with the port given by the caller
ipstrtoaddr(ip, port) ==
  IF strchr(ip, ":")
  THEN IF IsIp6(ip) THEN [ok |-> TRUE, ip6 |-> TRUE, ip |-> ip, port |-> port]
       ELSE ParseFail
  ELSE IF IsIp4(ip) THEN [ok |-> TRUE, ip6 |-> FALSE, ip |-> ip, port |-> port]
       ELSE ParseFail

\* extstrtoaddr: address and port parsed together from "addr@port"
extstrtoaddr(str) ==
  LET i == IndexOf(str, "@")
      p == SubSeq(str, i+1, Len(str))
  IN IF i = 0 \/ ~IsDigits(p) THEN ParseFail
     ELSE ipstrtoaddr(SubSeq(str, 1, i-1), DecVal(p))

----------------------------------------------------------------------------
(* Inputs of one invocation.                                               *)

Loopback == <<"1", "2", "7", ".", "0", ".", "0", ".", "1">>

\* the -s option: absent, or a server string
SvrInputs ==
  { NULL,
    Some(<<"1", "0", ".", "0", ".", "0", ".", "1">>),
    Some(<<"1", "0", ".", "0", ".", "0", ".", "1", "@", "5", "3">>),
    Some(<<"1", "0", ".", "0", ".", "0", ".", "1", "@", "x">>),
    Some(<<"3", "0", "0", ".", "0", ".", "0", ".", "1", "@", "5", "3">>) }

\* the command words after the options, as bytes
W_start == <<115, 116, 97, 114, 116>>
W_stop == <<115, 116, 111, 112>>

ArgvInputs == { <<>>, <<W_start>>, <<W_stop>> }

\* cfg->control_ifs, a list of strings
ControlIfsInputs ==
  { <<>>,
    << <<":", ":", "1">>, <<"1", "0", ".", "0", ".", "0", ".", "2", "@", "5", "3">> >>,
    << <<"3", "0", "0", ".", "0", ".", "0", ".", "1">> >> }

ControlPorts == {953}

NoCfg == [remote_control_enable |-> FALSE, control_ifs |-> <<>>, control_port |-> 0]

CfgInputs ==
  [remote_control_enable : BOOLEAN, control_ifs : ControlIfsInputs,
   control_port : ControlPorts]

\* bytes the peer sends; 0 is the NUL byte
Bytes == {0, 65}

Chunks == UNION { [1..n -> Bytes] : n \in 1..MaxChunk }

----------------------------------------------------------------------------
(* Constants of the program.                                               *)

\* char* cmd = "GET / HTTP/1.0\n\n"
cmd == <<71, 69, 84, 32, 47, 32, 72, 84, 84, 80, 47, 49, 46, 48, 10, 10>>

\* char buf[1024]
BufSize == 1024

\* results of SSL_get_error
SslErrors == {"WANT_READ", "WANT_WRITE", "ZERO_RETURN", "SYSCALL", "SSL"}

Resources == {"cfg", "ctx", "fd", "ssl"}

NoCtx == [no_sslv2 |-> FALSE, cert |-> FALSE, key |-> FALSE, key_checked |-> FALSE,
          verify_loc |-> FALSE, verify_peer |-> FALSE]

NoAddr == [ok |-> FALSE]

NoPeer == [verify_ok |-> FALSE, cert |-> FALSE]

NoRead == [r |-> 0, e |-> "NONE"]

----------------------------------------------------------------------------
(* Initial state: the process has started, the command line is given.      *)

Init ==
  /\ pc = "main"
  /\ status = -1
  /\ err = "none"
  /\ argv \in ArgvInputs
  /\ svr \in SvrInputs
  /\ cfg = NoCfg
  /\ res = [r \in Resources |-> "none"]
  /\ ctx = NoCtx
  /\ addr = NoAddr
  /\ hsr = "NONE"
  /\ nhs = 0
  /\ peer = NoPeer
  /\ wr = 0
  /\ written = <<>>
  /\ received = <<>>
  /\ out = <<>>
  /\ nreads = 0
  /\ rd = NoRead
  /\ warned = FALSE
  /\ trace = <<>>

\* the process ended with status 0 whatever the code handed to exit
ExitZero(code, kind) ==
  /\ pc' = "exit"
  /\ status' = 0
  /\ err' = kind

\* exit(code): usage, ssl_err and fatal_exit all end the process at once
Exit(code, kind) ==
  /\ pc' = "exit"
  /\ status' = code
  /\ err' = kind

----------------------------------------------------------------------------
(* main: the command words decide between usage, exec and go.              *)

Main ==
  /\ pc = "main"
  /\ UNCHANGED <<argv, svr, cfg, res, ctx, addr, hsr, nhs, peer, wr, written,
                 received, out, nreads, rd, warned, trace>>
  /\ IF Len(argv) = 0
     THEN Exit(1, "usage")
     ELSE IF Len(argv) = 1 /\ argv[1] = W_start
          THEN \E exec_ok \in BOOLEAN :
                 IF exec_ok
                 THEN pc' = "exec" /\ UNCHANGED <<status, err>>
                 ELSE Exit(1, "exec")
          ELSE pc' = "go" /\ UNCHANGED <<status, err>>

----------------------------------------------------------------------------
(* go: read config, then the calls of go in their order.                   *)

\* the server contacted before the context is built
GoSequenceContactFirst ==
  <<"contact_server", "setup_ctx", "setup_ssl", "go_cmd", "teardown">>

\* setup_ctx; contact_server; setup_ssl; go_cmd; the four releases
GoSequence == <<"setup_ctx", "contact_server", "setup_ssl", "go_cmd", "teardown">>

\* where go continues when the call returns
AfterCall(c) ==
  LET i == CHOOSE k \in 1..Len(GoSequence) : GoSequence[k] = c IN
  IF i = Len(GoSequence) THEN "main_ret" ELSE GoSequence[i+1]

ReadConfig ==
  /\ pc = "go"
  /\ UNCHANGED <<argv, svr, ctx, addr, hsr, nhs, peer, wr, written, received,
                 out, nreads, rd>>
  /\ \E create_ok \in BOOLEAN, read_ok \in BOOLEAN, c \in CfgInputs :
       IF ~create_ok
       THEN /\ Exit(1, "oom")
            /\ trace' = trace \o <<"config_create">>
            /\ UNCHANGED <<cfg, res, warned>>
       ELSE IF ~read_ok
       THEN /\ Exit(1, "config")
            /\ trace' = trace \o <<"config_create", "config_read">>
            /\ res' = [res EXCEPT !["cfg"] = "held"]
            /\ UNCHANGED <<cfg, warned>>
       ELSE /\ pc' = GoSequence[1]
            /\ trace' = trace \o <<"config_create", "config_read">>
            /\ res' = [res EXCEPT !["cfg"] = "held"]
            /\ cfg' = c
            /\ warned' = ~c.remote_control_enable
            /\ UNCHANGED <<status, err>>

----------------------------------------------------------------------------
(* setup_ctx: build the SSL context from the key and the certificates.     *)

CtxOutcomes ==
  [fname : BOOLEAN, ctx_new : BOOLEAN, set_options : BOOLEAN, use_cert : BOOLEAN,
   use_key : BOOLEAN, check_key : BOOLEAN, load_verify : BOOLEAN]

\* the key is loaded but never checked against the certificate
ClientKeyUnchecked(o) == o.use_cert /\ o.use_key

\* the client certificate and key are loaded and belong together
ClientKeyOk(o) == o.use_cert /\ o.use_key /\ o.check_key

\* the result of loading the trusted server certificate ignored
ServerCertUnchecked(o) == TRUE

\* the trusted server certificate is loaded
ServerCertOk(o) == o.load_verify

\* the context after the certificate and key calls; || stops at the first failure
CtxWithKey(o) ==
  [NoCtx EXCEPT !.no_sslv2 = TRUE,
                !.cert = o.use_cert,
                !.key = o.use_cert /\ o.use_key,
                !.key_checked = o.use_cert /\ o.use_key /\ o.check_key]

\* the context after SSL_CTX_load_verify_locations
CtxWithVerify(o) == [CtxWithKey(o) EXCEPT !.verify_loc = o.load_verify]

SetupCtx ==
  /\ pc = "setup_ctx"
  /\ UNCHANGED <<argv, svr, cfg, addr, hsr, nhs, peer, wr, written, received,
                 out, nreads, rd, warned>>
  /\ trace' = trace \o <<"setup_ctx">>
  /\ \E o \in CtxOutcomes :
       IF ~o.fname
       THEN Exit(1, "oom") /\ UNCHANGED <<res, ctx>>
       ELSE IF ~o.ctx_new
       THEN Exit(1, "ssl_ctx") /\ UNCHANGED <<res, ctx>>
       ELSE /\ res' = [res EXCEPT !["ctx"] = "held"]
            /\ IF ~o.set_options
               THEN Exit(1, "ssl_ctx") /\ ctx' = NoCtx
               ELSE IF ~ClientKeyOk(o)
               THEN Exit(1, "credential") /\ ctx' = CtxWithKey(o)
               ELSE IF ~ServerCertOk(o)
               THEN Exit(1, "credential") /\ ctx' = CtxWithVerify(o)
               ELSE /\ pc' = AfterCall("setup_ctx")
                    /\ ctx' = [CtxWithVerify(o) EXCEPT !.verify_peer = TRUE]
                    /\ UNCHANGED <<status, err>>

----------------------------------------------------------------------------
(* contact_server: choose the server string, parse it, connect.            *)

\* the first config entry preferred to the -s option
ServerStringConfigFirst(s, c) ==
  IF c.control_ifs # <<>> THEN c.control_ifs[1]
  ELSE IF s = NULL THEN Loopback ELSE s[1]

\* use svr or the first config entry
ServerString(s, c) ==
  IF s = NULL
  THEN IF c.control_ifs # <<>> THEN c.control_ifs[1] ELSE Loopback
  ELSE s[1]

\* every string handed to the bare-address parser, '@' or not
ParseServerBare(s, c) == ipstrtoaddr(s, c.control_port)

ParseServer(s, c) ==
  IF strchr(s, "@") THEN extstrtoaddr(s) ELSE ipstrtoaddr(s, c.control_port)

\* the result of the parser ignored
ParseNeverFatal(a) == FALSE

\* if(!extstrtoaddr(..)) fatal_exit, if(!ipstrtoaddr(..)) fatal_exit
ParseFatal(a) == ~a.ok

ContactResolve ==
  /\ pc = "contact_server"
  /\ UNCHANGED <<argv, svr, cfg, res, ctx, hsr, nhs, peer, wr, written, received,
                 out, nreads, rd, warned>>
  /\ trace' = trace \o <<"resolve">>
  /\ LET a == ParseServer(ServerString(svr, cfg), cfg) IN
       IF ParseFatal(a)
       THEN Exit(1, "address") /\ UNCHANGED addr
       ELSE pc' = "socket" /\ addr' = a /\ UNCHANGED <<status, err>>

\* a failed connect followed by a new socket and a new connect
ContactConnectAgain ==
  /\ pc = "socket"
  /\ UNCHANGED <<argv, svr, cfg, ctx, addr, hsr, nhs, peer, wr, written,
                 received, out, nreads, rd, warned>>
  /\ \E sock_ok \in BOOLEAN, conn_ok \in BOOLEAN :
       IF ~sock_ok
       THEN /\ Exit(1, "socket")
            /\ trace' = trace \o <<"socket">>
            /\ UNCHANGED res
       ELSE /\ res' = [res EXCEPT !["fd"] = "held"]
            /\ trace' = trace \o <<"socket", "connect">>
            /\ IF ~conn_ok
               THEN pc' = "socket" /\ UNCHANGED <<status, err>>
               ELSE pc' = AfterCall("contact_server") /\ UNCHANGED <<status, err>>

ContactConnect ==
  /\ pc = "socket"
  /\ UNCHANGED <<argv, svr, cfg, ctx, addr, hsr, nhs, peer, wr, written,
                 received, out, nreads, rd, warned>>
  /\ \E sock_ok \in BOOLEAN, conn_ok \in BOOLEAN :
       IF ~sock_ok
       THEN /\ Exit(1, "socket")
            /\ trace' = trace \o <<"socket">>
            /\ UNCHANGED res
       ELSE /\ res' = [res EXCEPT !["fd"] = "held"]
            /\ trace' = trace \o <<"socket", "connect">>
            /\ IF ~conn_ok
               THEN Exit(1, "connect")
               ELSE pc' = AfterCall("contact_server") /\ UNCHANGED <<status, err>>

----------------------------------------------------------------------------
(* setup_ssl: the session, the handshake loop, the check of the peer.      *)

SetupSslNew ==
  /\ pc = "setup_ssl"
  /\ UNCHANGED <<argv, svr, cfg, ctx, addr, hsr, nhs, peer, wr, written,
                 received, out, nreads, rd, warned>>
  /\ trace' = trace \o <<"SSL_new">>
  /\ \E new_ok \in BOOLEAN, setfd_ok \in BOOLEAN :
       IF ~new_ok
       THEN Exit(1, "ssl_new") /\ UNCHANGED res
       ELSE /\ res' = [res EXCEPT !["ssl"] = "held"]
            /\ IF ~setfd_ok
               THEN Exit(1, "ssl_new")
               ELSE pc' = "handshake" /\ UNCHANGED <<status, err>>

\* only want-read taken for a handshake that wants to be called again
HandshakeRetryReadOnly(e) == e = "WANT_READ"

\* a failed system call taken for a handshake that wants to be called again
HandshakeRetrySyscall(e) == e = "WANT_READ" \/ e = "WANT_WRITE" \/ e = "SYSCALL"

\* the handshake wants to be called again
HandshakeRetry(e) == e = "WANT_READ" \/ e = "WANT_WRITE"

Handshake ==
  /\ pc = "handshake"
  /\ UNCHANGED <<argv, svr, cfg, res, ctx, addr, wr, written, received, out,
                 nreads, rd, warned>>
  /\ trace' = trace \o <<"SSL_do_handshake">>
  /\ nhs' = nhs + 1
  /\ \E e \in {"OK"} \cup SslErrors :
       /\ HandshakeRetry(e) => nhs < MaxHandshake
       /\ hsr' = e
       /\ IF e = "OK"
          THEN /\ pc' = "verify"
               /\ peer' \in [verify_ok : BOOLEAN, cert : BOOLEAN]
               /\ UNCHANGED <<status, err>>
          ELSE IF HandshakeRetry(e)
          THEN pc' = "handshake" /\ UNCHANGED <<status, err, peer>>
          ELSE Exit(1, "handshake") /\ UNCHANGED peer

\* while(1): the loop has no count of its own.  Attempts after the first
\* MaxHandshake that want to be called again are neither counted nor logged:
\* nhs stays at MaxHandshake + 1, which stands for "more than MaxHandshake".
HandshakeBeyondBound ==
  /\ pc = "handshake"
  /\ nhs >= MaxHandshake
  /\ UNCHANGED <<status, err, argv, svr, cfg, res, ctx, addr, peer, wr, written,
                 received, out, nreads, rd, warned, trace>>
  /\ nhs' = MaxHandshake + 1
  /\ \E e \in SslErrors :
       /\ HandshakeRetry(e)
       /\ hsr' = e
       /\ pc' = "handshake"

\* SSL_get_verify_result(ssl) != X509_V_OK
VerifyFailed(p) == ~p.verify_ok

\* the check for a missing peer certificate left out
NoPeerCertSkipped(p) == FALSE

\* !SSL_get_peer_certificate(ssl)
NoPeerCert(p) == ~p.cert

VerifyPeer ==
  /\ pc = "verify"
  /\ UNCHANGED <<argv, svr, cfg, res, ctx, addr, hsr, nhs, peer, wr, written,
                 received, out, nreads, rd, warned>>
  /\ trace' = trace \o <<"verify">>
  /\ IF VerifyFailed(peer)
     THEN Exit(1, "verify")
     ELSE IF NoPeerCert(peer)
     THEN Exit(1, "nocert")
     ELSE pc' = AfterCall("setup_ssl") /\ UNCHANGED <<status, err>>

----------------------------------------------------------------------------
(* go_cmd: send command and display result.                                *)

\* results of SSL_write the model offers: failure, nothing, short, complete
WriteResults == {-1, 0, 1, Len(cmd)}

\* only a negative result of SSL_write taken for a failure
WriteFailedNegative(r) == r < 0

\* SSL_write(..) <= 0
WriteFailed(r) == r <= 0

GoCmdWrite ==
  /\ pc = "go_cmd"
  /\ UNCHANGED <<argv, svr, cfg, res, ctx, addr, hsr, nhs, peer, received, out,
                 nreads, rd, warned>>
  /\ trace' = trace \o <<"SSL_write">>
  /\ \E r \in WriteResults :
       /\ wr' = r
       /\ written' = IF r > 0 THEN SubSeq(cmd, 1, r) ELSE <<>>
       /\ IF WriteFailed(r)
          THEN Exit(1, "write")
          ELSE pc' = "read" /\ UNCHANGED <<status, err>>

\* the whole buffer asked for, no room left for the terminator
ReadSizeWholeBuffer == BufSize

\* (int)sizeof(buf)-1
ReadSize == BufSize - 1

\* SSL_read(..) <= 0
ReadStops(r) == r <= 0

\* every error of a stopped read taken for the end of the answer
ReadEofAnyError(e) == e \in {"ZERO_RETURN", "SYSCALL"}

\* SSL_get_error(ssl, r) == SSL_ERROR_ZERO_RETURN
ReadEof(e) == e = "ZERO_RETURN"

\* buf[r] = 0; printf("%s", buf): the bytes of buf before its first NUL
CStr(b) ==
  LET i == IndexOf(b, 0) IN
  IF i = 0 THEN b ELSE SubSeq(b, 1, i-1)

\* a read that fills all the bytes asked for
FullRead == [r |-> ReadSize, e |-> "NONE", data |-> [i \in 1..ReadSize |-> 65]]

ReadResults ==
  { [r |-> Len(c), e |-> "NONE", data |-> c] : c \in {x \in Chunks : Len(x) <= ReadSize} }
  \cup {FullRead}
  \cup [r : {0, -1}, e : SslErrors, data : {<<>>}]

GoCmdRead ==
  /\ pc = "read"
  /\ UNCHANGED <<argv, svr, cfg, res, ctx, addr, hsr, nhs, peer, wr, written,
                 warned>>
  /\ trace' = trace \o <<"SSL_read">>
  /\ \E x \in ReadResults :
       /\ x.r > 0 => (nreads < MaxReads /\ Len(received) + x.r <= MaxAnswer)
       /\ rd' = [r |-> x.r, e |-> x.e]
       /\ IF ReadStops(x.r)
          THEN /\ UNCHANGED <<received, out, nreads>>
               /\ IF ReadEof(x.e)
                  THEN pc' = AfterCall("go_cmd") /\ UNCHANGED <<status, err>>
                  ELSE Exit(1, "read")
          ELSE /\ received' = received \o x.data
               /\ out' = out \o CStr(x.data)
               /\ nreads' = nreads + 1
               /\ pc' = "read"
               /\ UNCHANGED <<status, err>>

----------------------------------------------------------------------------
(* go: release everything, main returns 0.                                 *)

\* the context freed before the session made from it
ReleaseOrderCtxFirst == <<"ctx", "ssl", "fd", "cfg">>

\* the close of the socket forgotten
ReleaseOrderNoClose == <<"ssl", "ctx", "cfg">>

\* SSL_free(ssl); close(fd); SSL_CTX_free(ctx); config_delete(cfg)
ReleaseOrder == <<"ssl", "fd", "ctx", "cfg">>

Teardown ==
  /\ pc = "teardown"
  /\ UNCHANGED <<status, err, argv, svr, cfg, ctx, addr, hsr, nhs, peer, wr,
                 written, received, out, nreads, rd, warned>>
  /\ res' = [r \in Resources |->
               IF \E i \in 1..Len(ReleaseOrder) : ReleaseOrder[i] = r
               THEN "released" ELSE res[r]]
  /\ trace' = trace \o [i \in 1..Len(ReleaseOrder) |-> "free_" \o ReleaseOrder[i]]
  /\ pc' = AfterCall("teardown")

MainReturn ==
  /\ pc = "main_ret"
  /\ UNCHANGED <<argv, svr, cfg, res, ctx, addr, hsr, nhs, peer, wr, written,
                 received, out, nreads, rd, warned, trace>>
  /\ Exit(0, "none")

----------------------------------------------------------------------------

Next ==
  \/ Main
  \/ ReadConfig
  \/ SetupCtx
  \/ ContactResolve
  \/ ContactConnect
  \/ SetupSslNew
  \/ Handshake
  \/ VerifyPeer
  \/ GoCmdWrite
  \/ GoCmdRead
  \/ Teardown
  \/ MainReturn

Spec == Init /\ [][Next]_vars

\* the same program with a transport that may signal would-block without end;
\* the process is single-threaded and running: in the handshake loop it
\* always makes its next attempt
NextLive ==
  \/ Main
  \/ ReadConfig
  \/ SetupCtx
  \/ ContactResolve
  \/ ContactConnect
  \/ SetupSslNew
  \/ Handshake
  \/ HandshakeBeyondBound
  \/ VerifyPeer
  \/ GoCmdWrite
  \/ GoCmdRead
  \/ Teardown
  \/ MainReturn

SpecLive ==
  Init /\ [][NextLive]_vars /\ WF_vars(Handshake \/ HandshakeBeyondBound)

TypeOK ==
  /\ pc \in {"main", "go", "setup_ctx", "contact_server", "socket", "setup_ssl",
             "handshake", "verify", "go_cmd", "read", "teardown", "main_ret",
             "exit", "exec"}
  /\ status \in {-1, 0, 1}
  /\ res \in [Resources -> {"none", "held", "released"}]
  /\ nhs \in 0..(MaxHandshake + 1)
  /\ nreads \in 0..MaxReads

----------------------------------------------------------------------------
(* Properties.                                                             *)

InTrace(e) == \E i \in 1..Len(trace) : trace[i] = e

Failed(kind) == pc = "exit" /\ status = 1 /\ err = kind

\* C1: data is written to or read from the channel only after a handshake
\* that succeeded, with a valid verification result and a peer certificate;
\* when the handshake succeeded and the verification result is not valid or
\* the peer certificate is absent, the process has exited with status 1 and
\* neither SSL_write nor SSL_read was called.
C1_DataOnlyAfterAuthentication ==
  /\ (InTrace("SSL_write") \/ InTrace("SSL_read"))
       => (hsr = "OK" /\ peer.verify_ok /\ peer.cert)
  /\ (InTrace("verify") /\ hsr = "OK" /\ ~(peer.verify_ok /\ peer.cert))
       => /\ pc = "exit" /\ status = 1
          /\ ~InTrace("SSL_write") /\ ~InTrace("SSL_read")

\* the handshake succeeded, the chain verified, the peer sent no certificate
C1_Witness ==
  /\ hsr = "OK" /\ peer.verify_ok /\ ~peer.cert
  /\ Failed("nocert")

\* C2: a handshake attempt is repeated exactly when the attempt before it
\* failed with want-read or want-write; any other failure has ended the
\* process with a handshake error and no attempt follows it; a success has
\* left the loop and no attempt follows it.
C2_HandshakeLoop ==
  /\ [](/\ (pc = "handshake" /\ nhs > 0) => hsr \in {"WANT_READ", "WANT_WRITE"}
        /\ hsr \in {"WANT_READ", "WANT_WRITE"} => pc = "handshake"
        /\ hsr \in {"ZERO_RETURN", "SYSCALL", "SSL"} => Failed("handshake")
        /\ hsr = "OK" => pc # "handshake")
  /\ [][nhs' # nhs => (nhs' = nhs + 1 /\ hsr \in {"NONE", "WANT_READ", "WANT_WRITE"})]_vars

\* a second attempt after a want-read or want-write, which failed for good
C2_Witness ==
  /\ nhs = 2 /\ hsr = "SYSCALL"
  /\ Failed("handshake")

CtxComplete ==
  ctx.cert /\ ctx.key /\ ctx.key_checked /\ ctx.verify_loc

\* C3: when setup_ctx could not load the client certificate, the private key,
\* a key that matches the certificate, or the trusted server certificate, the
\* process has exited with status 1 and a credential error, and no address
\* was resolved, no socket was created and no connect was attempted.
C3_CredentialFailureBeforeNetwork ==
  /\ (InTrace("setup_ctx") /\ ~CtxComplete)
       => /\ pc = "exit" /\ status = 1
          /\ err \in {"credential", "oom", "ssl_ctx"}
          /\ ~InTrace("socket") /\ ~InTrace("connect")
  /\ (ctx.no_sslv2 /\ ~CtxComplete) => err = "credential"

\* certificate and key were read, the key does not match the certificate
C3_Witness ==
  /\ ctx.cert /\ ctx.key /\ ~ctx.key_checked
  /\ Failed("credential")
  /\ ~InTrace("socket")

\* the string contact_server parses, and whether its parser rejects it
ServerUnparsable ==
  LET s == ServerString(svr, cfg) IN
  IF strchr(s, "@") THEN ~extstrtoaddr(s).ok
  ELSE ~ipstrtoaddr(s, cfg.control_port).ok

\* C4: when the server string is rejected by its parser (the address@port
\* parser when it has an '@', the bare-address parser otherwise), the process
\* has exited with status 1 and an address error, and no socket, connect,
\* handshake, write or read was made.
C4_AddressFailureBeforeNetwork ==
  (InTrace("resolve") /\ ServerUnparsable)
    => /\ Failed("address")
       /\ \A e \in {"socket", "connect", "SSL_new", "SSL_do_handshake",
                    "SSL_write", "SSL_read"} : ~InTrace(e)

\* a string with '@' and a port that is not a number was rejected
C4_Witness ==
  /\ InTrace("resolve") /\ ServerUnparsable
  /\ strchr(ServerString(svr, cfg), "@")
  /\ Failed("address")

\* C5: the read loop has ended successfully exactly when a read returned a
\* non-positive result with the zero-return error; any other non-positive
\* result has ended the process with a read error and status 1; after a
\* positive read the loop reads again; an orderly shutdown as first read
\* outcome gives an empty output and status 0.
C5_ReadLoopEnd ==
  LET stopped == InTrace("SSL_read") /\ rd.r <= 0
      ended == pc \in {"teardown", "main_ret"} \/ (pc = "exit" /\ status = 0)
  IN /\ ended <=> (stopped /\ rd.e = "ZERO_RETURN")
     /\ (stopped /\ rd.e # "ZERO_RETURN") => Failed("read")
     /\ rd.r > 0 => pc = "read"
     /\ (pc = "exit" /\ status = 0 /\ nreads = 0) => out = <<>>

\* the peer closed cleanly right after the request: empty output, status 0
C5_Witness ==
  /\ pc = "exit" /\ status = 0
  /\ rd.r = 0 /\ rd.e = "ZERO_RETURN"
  /\ nreads = 0 /\ out = <<>> /\ wr = Len(cmd)

\* C6: at every point of the read loop the bytes printed are the
\* concatenation, in arrival order, of all chunks received so far, whatever
\* the values of their bytes.
C6_OutputIsAllReceived == out = received

\* the command words joined by single spaces
RECURSIVE CommandPayload(_)
CommandPayload(av) ==
  IF Len(av) = 0 THEN <<>>
  ELSE IF Len(av) = 1 THEN av[1]
  ELSE av[1] \o <<32>> \o CommandPayload(Tail(av))

\* C7: the bytes of a complete write to the channel are the command the
\* caller gave on the command line.
C7_WrittenIsCallerCommand ==
  (InTrace("SSL_write") /\ wr = Len(cmd)) => written = CommandPayload(argv)

Count(e) == Cardinality({i \in 1..Len(trace) : trace[i] = e})

\* C8: at most one write is made, it comes before every read and none comes
\* after a read; a write result of zero or less has ended the process with a
\* write error and status 1, with no second write and no read.
C8_SingleWriteBeforeReads ==
  /\ Count("SSL_write") <= 1
  /\ \A i \in 1..Len(trace) : trace[i] = "SSL_read" =>
       /\ \E j \in 1..(i-1) : trace[j] = "SSL_write"
       /\ \A j \in (i+1)..Len(trace) : trace[j] # "SSL_write"
  /\ (InTrace("SSL_write") /\ wr <= 0)
       => (Failed("write") /\ Count("SSL_write") = 1 /\ ~InTrace("SSL_read"))

\* SSL_write returned 0: the process ended without a read
C8_Witness ==
  /\ InTrace("SSL_write") /\ wr = 0
  /\ Failed("write")

\* the stage of the driver an operation belongs to: 1 build trust context,
\* 2 resolve endpoint, 3 establish channel, 4 exchange command, 5 tear down
StageOf(e) ==
  CASE e \in {"config_create", "config_read"} -> 0
    [] e = "setup_ctx" -> 1
    [] e = "resolve" -> 2
    [] e \in {"socket", "connect", "SSL_new", "SSL_do_handshake", "verify"} -> 3
    [] e \in {"SSL_write", "SSL_read"} -> 4
    [] OTHER -> 5

\* the stages as the claim orders them: 1 resolve endpoint, 2 build trust
\* context, 3 establish channel, 4 exchange command, 5 tear down
ClaimedStageOf(e) ==
  CASE e = "resolve" -> 1
    [] e = "setup_ctx" -> 2
    [] OTHER -> StageOf(e)

\* C9 as stated: the stages run in the order resolve endpoint, build trust
\* context, establish channel, exchange command, tear down, so no operation
\* of an earlier stage follows one of a later stage.
C9_ResolveBeforeTrustContext ==
  \A i \in 1..(Len(trace) - 1) :
    ClaimedStageOf(trace[i]) <= ClaimedStageOf(trace[i+1])

\* C9 amended: the stages run in the order build trust context, resolve
\* endpoint, establish channel, exchange command, tear down; a stage starts
\* only after every stage before it was run and has completed.
C9_StageOrder ==
  /\ \A i \in 1..(Len(trace) - 1) : StageOf(trace[i]) <= StageOf(trace[i+1])
  /\ \A i \in 1..(Len(trace) - 1) : StageOf(trace[i+1]) <= StageOf(trace[i]) + 1
  /\ Len(trace) > 0 => StageOf(trace[1]) = 0
  /\ InTrace("resolve") => (CtxComplete /\ ctx.no_sslv2 /\ ctx.verify_peer)
  /\ InTrace("socket") => addr.ok
  /\ InTrace("SSL_write") => (InTrace("verify") /\ hsr = "OK")
  /\ InTrace("free_ssl") => (rd.r <= 0 /\ rd.e = "ZERO_RETURN")

\* a whole invocation: all five stages were run
C9_Witness ==
  /\ pc = "exit" /\ status = 0
  /\ \A k \in 1..5 : \E i \in 1..Len(trace) : StageOf(trace[i]) = k

\* the resources the claim names: socket, SSL session, trust context
Acquired == {"fd", "ssl", "ctx"}

\* C10 as stated: on every exit path each resource acquired so far has been
\* released before the process terminates.
C10_ReleasedOnEveryExit ==
  pc = "exit" => \A r \in Acquired : res[r] # "held"

\* C10 amended: when the process ends with status 0 the socket, the SSL
\* session and the trust context have been released; when it ends on a
\* failure path it exits at once and none of them has been released.
C10_ReleasedOnSuccessOnly ==
  /\ (pc = "exit" /\ status = 0) => \A r \in Acquired : res[r] = "released"
  /\ (pc = "exit" /\ status = 1) => \A r \in Acquired : res[r] # "released"

\* connect failed: the process ended with the socket and the context held
C10_Witness ==
  /\ Failed("connect")
  /\ res["fd"] = "held" /\ res["ctx"] = "held"

\* C11: the exit status is 1 whenever a stage failed (usage, exec, config,
\* credentials, address, socket, connect, session, handshake, verification,
\* peer certificate, write, read); it is 0 only when no stage failed and the
\* read loop was ended by the peer's orderly closure after a write that
\* succeeded; a failure status never turns into 0.
C11_ExitStatus ==
  /\ [](pc = "exit" =>
          /\ status \in {0, 1}
          /\ err # "none" <=> status = 1
          /\ status = 0 =>
               /\ InTrace("SSL_write") /\ wr > 0
               /\ InTrace("SSL_read") /\ rd.r <= 0 /\ rd.e = "ZERO_RETURN")
  /\ [](pc # "exit" => (status = -1 /\ err = "none"))
  /\ [][status = 1 => status' = 1]_vars

\* a read failed in the middle of the answer: status 1
C11_Witness ==
  /\ Failed("read") /\ nreads > 0
  /\ rd.r <= 0 /\ rd.e # "ZERO_RETURN"

\* C12 as stated: the handshake loop is bounded, so whatever the transport
\* does the loop eventually ends, in success or in a fatal handshake error:
\* the process is never in the loop for good.
C12_HandshakeLoopEnds ==
  []<>(pc # "handshake")

\* C12 amended: the handshake loop has no bound of its own on the number of
\* attempts; after every attempt that wants read or write it attempts again,
\* and it ends exactly when an attempt returns another result: a success
\* goes on to the check of the peer, any other error ends the process with
\* a handshake error and status 1.
C12_LoopEndsOnlyOnResult ==
  [][pc = "handshake" =>
       /\ hsr' \in {"WANT_READ", "WANT_WRITE"} => pc' = "handshake"
       /\ pc' # "handshake" =>
            \/ hsr' = "OK" /\ pc' = "verify" /\ status' = -1
            \/ /\ hsr' \in {"ZERO_RETURN", "SYSCALL", "SSL"}
               /\ pc' = "exit" /\ status' = 1 /\ err' = "handshake"]_vars

\* more would-block outcomes than MaxHandshake, and the loop is still running
C12_Witness ==
  /\ pc = "handshake" /\ nhs > MaxHandshake
  /\ hsr = "WANT_WRITE"

\* C13: at most one socket is created and at most one connect is attempted;
\* a path that reaches the handshake has made exactly one of each; after a
\* failed connect or a failed handshake the process has ended with status 1
\* and no further socket or connect follows.
C13_SingleConnection ==
  /\ [](/\ Count("socket") <= 1
        /\ Count("connect") <= 1
        /\ InTrace("SSL_do_handshake") => (Count("socket") = 1 /\ Count("connect") = 1)
        /\ err \in {"connect", "handshake"} =>
             (pc = "exit" /\ status = 1 /\ Count("connect") = 1))
  /\ [][(err \in {"connect", "handshake"}) => (trace' = trace)]_vars

\* the handshake failed after the one connect of the invocation
C13_Witness ==
  /\ Failed("handshake")
  /\ Count("socket") = 1 /\ Count("connect") = 1

\* the parts of the server string before and after its first '@'
AddrPart(s) == SubSeq(s, 1, IndexOf(s, "@") - 1)
PortPart(s) == SubSeq(s, IndexOf(s, "@") + 1, Len(s))

ValidAddr(a) == IsIp4(a) \/ IsIp6(a)

\* "addr@port" with a valid literal address and a port of digits only
WellFormedAddrAtPort(s) ==
  strchr(s, "@") /\ ValidAddr(AddrPart(s)) /\ IsDigits(PortPart(s))

\* every string contact_server can be given in this model, and those among
\* them that are a well-formed "addr@port" or a valid bare address
ServerStrings ==
  {Loopback} \cup {Head(s) : s \in SvrInputs \ {NULL}}
             \cup {Head(c) : c \in ControlIfsInputs \ {<<>>}}

WellFormedStrings == {s \in ServerStrings : WellFormedAddrAtPort(s)}

ValidAddrStrings == {s \in ServerStrings : ValidAddr(s)}

\* C14 as stated: a well-formed "addr@port" resolves to exactly that address
\* and port; every other string (no '@', a port that is not a number, an
\* invalid address) fails with an address error.
C14_OnlyAddrAtPortResolves ==
  LET s == ServerString(svr, cfg) IN
  InTrace("resolve") =>
    IF s \in WellFormedStrings
    THEN addr.ok /\ addr.ip = AddrPart(s) /\ addr.port = DecVal(PortPart(s))
    ELSE Failed("address")

\* C14 amended: a well-formed "addr@port" resolves to exactly that address
\* and port; a string with '@' whose port is not a number or whose address is
\* invalid fails with an address error; a string without '@' is no failure
\* by itself: it resolves as a bare address with the default control port
\* and fails with an address error only when the address is invalid.
C14_AddrAtPortResolution ==
  LET s == ServerString(svr, cfg) IN
  InTrace("resolve") =>
    IF s \in WellFormedStrings
    THEN /\ addr.ok /\ addr.ip = AddrPart(s) /\ addr.port = DecVal(PortPart(s))
         /\ err # "address"
    ELSE IF strchr(s, "@") THEN Failed("address")
    ELSE IF s \in ValidAddrStrings
    THEN /\ addr.ok /\ addr.ip = s /\ addr.port = cfg.control_port
         /\ err # "address"
    ELSE Failed("address")

\* "10.0.0.1@53" was resolved to the address 10.0.0.1 and the port 53
C14_Witness ==
  /\ InTrace("resolve") /\ svr # NULL
  /\ ServerString(svr, cfg) \in WellFormedStrings
  /\ addr.ok /\ addr.port = 53
  /\ addr.ip = <<"1", "0", ".", "0", ".", "0", ".", "1">>

\* the string the claim says is resolved: the -s override, else the first
\* configured control interface, else 127.0.0.1
ChosenString ==
  IF svr # NULL THEN Head(svr)
  ELSE IF Len(cfg.control_ifs) > 0 THEN Head(cfg.control_ifs)
  ELSE <<"1", "2", "7", ".", "0", ".", "0", ".", "1">>

\* C15: the string resolved is the -s override when given, else the first
\* configured control interface, else 127.0.0.1; without '@' the address is
\* the whole string and the port is the configured control port; with '@'
\* address and port both come from the string and the configured port is
\* not used.
C15_ServerSelection ==
  InTrace("resolve") =>
    /\ addr.ok =>
         IF strchr(ChosenString, "@")
         THEN /\ addr.ip = AddrPart(ChosenString)
              /\ addr.port = DecVal(PortPart(ChosenString))
         ELSE /\ addr.ip = ChosenString
              /\ addr.port = cfg.control_port
    /\ ~addr.ok =>
         (Failed("address") /\ ChosenString \notin WellFormedStrings \cup ValidAddrStrings)

\* no -s option: the first of two configured interfaces, "::1", was resolved
\* with the configured port
C15_Witness ==
  /\ InTrace("resolve") /\ svr = NULL /\ Len(cfg.control_ifs) = 2
  /\ addr.ok /\ addr.ip = <<":", ":", "1">> /\ addr.port = cfg.control_port

\* setup_ctx has returned a context to go
CtxReturned ==
  /\ InTrace("setup_ctx")
  /\ ~(pc = "exit" /\ trace[Len(trace)] = "setup_ctx")

CtxPolicy ==
  /\ ctx.no_sslv2 /\ ctx.verify_peer
  /\ ctx.cert /\ ctx.key /\ ctx.key_checked /\ ctx.verify_loc

\* C16: a context returned by setup_ctx, whatever the configuration, has
\* SSLv2 disabled, peer verification enabled, the client certificate, the
\* matching private key and the trusted server certificate loaded; every
\* handshake is made with such a context.
C16_ContextPolicy ==
  /\ CtxReturned => CtxPolicy
  /\ (InTrace("SSL_new") \/ InTrace("SSL_do_handshake")) => (CtxReturned /\ CtxPolicy)

\* a handshake was attempted, with control-enable off in the configuration
C16_Witness ==
  /\ InTrace("SSL_do_handshake") /\ ~cfg.remote_control_enable
  /\ CtxPolicy

\* C17 compares two invocations that differ only in the control-enable flag;
\* it is a property of pairs of behaviours and has no formula here.  In this
\* model the flag is read in ReadConfig alone, where it sets warned.

C19_TerminatorInsideBuffer ==
  /\ [](/\ ReadSize <= 1023
        /\ rd.r > 0 => (rd.r <= 1023 /\ rd.r < BufSize))
  /\ [][(nreads' # nreads \/ out' # out \/ received' # received) =>
          /\ rd'.r >= 1 /\ rd'.r <= 1023 /\ rd'.r < BufSize
          /\ nreads' = nreads + 1
          /\ Len(received') = Len(received) + rd'.r]_vars

\* a read filled all 1023 bytes asked for and the loop goes on
C19_Witness ==
  /\ pc = "read" /\ rd.r = 1023
  /\ Len(received) >= 1023 /\ Len(out) >= 1023

\* position of the first e in the trace, 0 when there is none
Pos(e) ==
  IF InTrace(e)
  THEN CHOOSE i \in 1..Len(trace) : trace[i] = e /\ \A j \in 1..(i-1) : trace[j] # e
  ELSE 0

Releases == {"free_ssl", "free_fd", "free_ctx", "free_cfg"}

\* C20: on the success path the configuration, the context, the socket and
\* the session are acquired in this order and released in the reverse order:
\* session, socket, context, configuration; the session is freed before its
\* socket is closed and before its context is freed; no handshake, write or
\* read follows a release.
C20_ReverseRelease ==
  /\ \A i \in 1..Len(trace) : trace[i] \in Releases =>
       \A j \in (i+1)..Len(trace) :
         trace[j] \notin {"SSL_do_handshake", "SSL_write", "SSL_read"}
  /\ InTrace("free_ssl") =>
       /\ 0 < Pos("config_create") /\ Pos("config_create") < Pos("setup_ctx")
       /\ Pos("setup_ctx") < Pos("socket") /\ Pos("socket") < Pos("SSL_new")
       /\ Pos("SSL_new") < Pos("free_ssl")
       /\ Pos("free_fd") = Pos("free_ssl") + 1
       /\ Pos("free_ctx") = Pos("free_ssl") + 2
       /\ Pos("free_cfg") = Pos("free_ssl") + 3
       /\ \A e \in Releases : Count(e) = 1
  /\ (pc = "exit" /\ status = 0) =>
       (InTrace("free_ssl") /\ \A r \in Resources : res[r] = "released")

\* a whole invocation with an answer: everything acquired and released
C20_Witness ==
  /\ pc = "exit" /\ status = 0 /\ nreads >= 1
  /\ \A e \in Releases : InTrace(e)

====
